---- MODULE Spec2Model ----
(***************************************************************************)
(* A model of app.py, the Global Superstore dashboard: the loader          *)
(* (load_data), the normaliser (smart_parse_datetime, preprocess), the     *)
(* filter (apply_filters) and the top-to-bottom script that Streamlit      *)
(* re-runs on every interaction.                                           *)
(*                                                                         *)
(* Each function is an operator computed the way the code computes it; a   *)
(* call that raises or stops the script returns a result whose status says *)
(* so.  Four specifications apply the functions to bounded inputs          *)
(* (SpecParse, SpecPre, SpecFilter, SpecLoad) and one (SpecApp) runs the   *)
(* script turn after turn with the two st.cache_data caches.               *)
(***************************************************************************)
EXTENDS Integers, Sequences, FiniteSets, TLC

VARIABLES
    series, parsed,                               \* smart_parse_datetime
    rawdf, out1, out2,                            \* preprocess, applied twice
    fdf, region_sel, category_sel, subcat_sel, fres,   \* apply_filters
    file, uploaded_file, loaded,                  \* load_data
    \* the script, run once per interaction
    disk,            \* the file at DATA_PATH
    uploaded,        \* what st.sidebar.file_uploader returns
    pc,              \* where the run of the script is
    turn,            \* how many runs have started
    shown,           \* the messages this run has put on the page
    ran,             \* the stages this run has entered
    df_raw, df_clean, df_f, kpis, charts,         \* what this run has computed
    load_cache, pre_cache,                        \* the two st.cache_data caches
    load_execs, pre_execs,       \* how often each function's body has run
    load_returned, pre_returned  \* every (input, table) a call has returned

parseVars == <<series, parsed>>
preVars == <<rawdf, out1, out2>>
filterVars == <<fdf, region_sel, category_sel, subcat_sel, fres>>
loadVars == <<file, uploaded_file, loaded>>

appVars == <<disk, uploaded, pc, turn, shown, ran, df_raw, df_clean, df_f,
             kpis, charts, load_cache, pre_cache, load_execs, pre_execs,
             load_returned, pre_returned>>

vars == <<parseVars, preVars, filterVars, loadVars, appVars>>

(***************************************************************************)
(* Bounds of the model.                                                    *)
(***************************************************************************)
MaxLen == 4        \* longest column given to smart_parse_datetime
MaxRows == 3       \* most rows of a table given to preprocess
MaxFilterRows == 2 \* most rows of a table given to apply_filters
MaxFileRows == 2   \* most rows of a file given to load_data
MaxTurns == 3      \* most runs of the script

(***************************************************************************)
(* Cells.  Every cell is a record of the same shape so that any two cells  *)
(* can be compared.                                                        *)
(*   null                      NaN / NaT / None                            *)
(*   junk                      text that is neither a date nor a number    *)
(*   text   f1/f2/f3 f4:00     a date written as three numbers             *)
(*   ts     f1-f2-f3 f4:00     a parsed timestamp: year, month, day, hour  *)
(*   date   f1-f2-f3           a calendar date: year, month, day           *)
(*   numtext f1                a number written as text                    *)
(*   num    f1                 a number                                    *)
(***************************************************************************)
Cell(k, a, b, c, d) == [k |-> k, f1 |-> a, f2 |-> b, f3 |-> c, f4 |-> d]
NullCell == Cell("null", 0, 0, 0, 0)
Junk == Cell("junk", 0, 0, 0, 0)
DateText(a, b, y, h) == Cell("text", a, b, y, h)
Ts(y, m, d, h) == Cell("ts", y, m, d, h)
CalDate(y, m, d) == Cell("date", y, m, d, 0)
NumText(n) == Cell("numtext", n, 0, 0, 0)
Num(n) == Cell("num", n, 0, 0, 0)
Str(n) == Cell("str", n, 0, 0, 0)

IsNull(c) == c.k = "null"

IsLeap(y) == (y % 4 = 0 /\ y % 100 # 0) \/ y % 400 = 0

DaysInMonth(m, y) ==
    IF m = 2 THEN (IF IsLeap(y) THEN 29 ELSE 28)
    ELSE IF m \in {4, 6, 9, 11} THEN 30 ELSE 31

ValidDate(y, m, d) == m \in 1..12 /\ d \in 1..DaysInMonth(m, y)

(***************************************************************************)
(* pd.to_datetime(..., errors="coerce", dayfirst=...) on one value: the    *)
(* first two numbers of a written date are month/day or day/month; what    *)
(* is no date on that reading becomes NaT.  A timestamp stays as it is.    *)
(* Both readings are taken strictly, as the two-attempt order of           *)
(* smart_parse_datetime supposes.                                          *)
(***************************************************************************)
\* a variant that reads a timestamp again, day and month exchanged
ToDatetimeCellSwapped(c, dayfirst) ==
    IF c.k = "ts" THEN Ts(c.f1, c.f3, c.f2, c.f4)
    ELSE IF c.k = "text"
    THEN LET m == IF dayfirst THEN c.f2 ELSE c.f1
             d == IF dayfirst THEN c.f1 ELSE c.f2
         IN IF ValidDate(c.f3, m, d) THEN Ts(c.f3, m, d, c.f4) ELSE NullCell
    ELSE NullCell

ToDatetimeCell(c, dayfirst) ==
    IF c.k = "ts" THEN c
    ELSE IF c.k = "text"
    THEN LET m == IF dayfirst THEN c.f2 ELSE c.f1
             d == IF dayfirst THEN c.f1 ELSE c.f2
         IN IF ValidDate(c.f3, m, d) THEN Ts(c.f3, m, d, c.f4) ELSE NullCell
    ELSE NullCell

to_datetime(s, dayfirst) == [i \in 1..Len(s) |-> ToDatetimeCell(s[i], dayfirst)]

\* Series.isna().sum()
NullCount(s) == Cardinality({i \in 1..Len(s) : IsNull(s[i])})

\* a variant whose threshold is reached at exactly one half
MostlyNullAtHalf(s) == Len(s) > 0 /\ 2 * NullCount(s) >= Len(s)

\* s.isna().mean() > 0.5; the mean of an empty series is NaN, and NaN > 0.5
\* is False
MostlyNull(s) == Len(s) > 0 /\ 2 * NullCount(s) > Len(s)

smart_parse_datetime(s) ==
    LET s1 == to_datetime(s, FALSE)
    IN IF MostlyNull(s1) THEN to_datetime(s, TRUE) ELSE s1

(***************************************************************************)
(* SpecParse: smart_parse_datetime applied to every column of at most      *)
(* MaxLen values.                                                          *)
(***************************************************************************)
DateCells ==
    { NullCell, Junk,
      DateText(3, 4, 2016, 0),       \* a date on both readings
      DateText(13, 4, 2016, 0),      \* a date day-first only
      DateText(4, 13, 2016, 10) }    \* a date month-first only

SeqsUpTo(S, n) == UNION {[1..k -> S] : k \in 0..n}

NotRun == [status |-> "notrun"]

\* the variables of the functions a specification does not apply
IdleParse == series = <<>> /\ parsed = NotRun
IdlePre == rawdf = NotRun /\ out1 = NotRun /\ out2 = NotRun
IdleFilter ==
    /\ fdf = NotRun /\ fres = NotRun
    /\ region_sel = {} /\ category_sel = {} /\ subcat_sel = {}
IdleLoad == file = NotRun /\ uploaded_file = NotRun /\ loaded = NotRun
IdleApp ==
    /\ disk = NotRun /\ uploaded = NotRun /\ pc = "off" /\ turn = 0
    /\ shown = {} /\ ran = {}
    /\ df_raw = NotRun /\ df_clean = NotRun /\ df_f = NotRun
    /\ kpis = NotRun /\ charts = {}
    /\ load_cache = {} /\ pre_cache = {}
    /\ load_execs = 0 /\ pre_execs = 0
    /\ load_returned = {} /\ pre_returned = {}

InitParse ==
    /\ series \in SeqsUpTo(DateCells, MaxLen)
    /\ parsed = NotRun
    /\ IdlePre /\ IdleFilter /\ IdleLoad /\ IdleApp

SmartParse ==
    /\ parsed = NotRun
    /\ parsed' = [status |-> "ok", val |-> smart_parse_datetime(series)]
    /\ UNCHANGED <<series, preVars, filterVars, loadVars, appVars>>

NextParse == SmartParse

SpecParse == InitParse /\ [][NextParse]_vars

\* C1: one decision per column: when more than half of the month-first parse
\* is null the result is the day-first parse of the whole column, otherwise
\* (exactly half included) it is the month-first parse of the whole column,
\* even when the day-first parse has fewer nulls.
C1_ParseThreshold ==
    parsed.status = "ok" =>
        LET mf == to_datetime(series, FALSE)
            df == to_datetime(series, TRUE)
        IN /\ 2 * NullCount(mf) > Len(series) => parsed.val = df
           /\ 2 * NullCount(mf) <= Len(series) => parsed.val = mf

\* exactly half of the month-first parse is null and the day-first parse has
\* no null at all: the month-first parse is kept
C1_Witness ==
    /\ parsed.status = "ok"
    /\ Len(series) > 0
    /\ 2 * NullCount(to_datetime(series, FALSE)) = Len(series)
    /\ NullCount(to_datetime(series, TRUE)) = 0
    /\ parsed.val = to_datetime(series, FALSE)
    /\ parsed.val # to_datetime(series, TRUE)

(***************************************************************************)
(* Tables.  A column label is the text of a header: `pre` blanks, a name   *)
(* that neither starts nor ends with a blank, `post` blanks.  A DataFrame  *)
(* is its set of column labels and its rows in order; a row keeps its      *)
(* index label (id) and holds one cell per column.                         *)
(***************************************************************************)
Label(pre, name, post) == [pre |-> pre, name |-> name, post |-> post]
Name(name) == Label(0, name, 0)

OrderDate == Name("Order Date")
ShipDate == Name("Ship Date")
Sales == Name("Sales")
Profit == Name("Profit")
Discount == Name("Discount")
Quantity == Name("Quantity")
Region == Name("Region")
Category == Name("Category")
SubCategory == Name("Sub-Category")
OrderDateDate == Name("Order Date (Date)")

Ok(v) == [status |-> "ok", val |-> v]
Raise(e) == [status |-> "raise", exc |-> e]
\* st.error(msg) followed by st.stop()
Stop(m) == [status |-> "stop", msg |-> m]

\* df[c]
Col(df, c) == [i \in 1..Len(df.rows) |-> df.rows[i].cells[c]]

\* df[c] = s
SetCol(df, c, s) ==
    LET cols == df.columns \cup {c}
    IN [columns |-> cols,
        rows |-> [i \in 1..Len(df.rows) |->
                    [id |-> df.rows[i].id,
                     cells |-> [x \in cols |->
                                  IF x = c THEN s[i] ELSE df.rows[i].cells[x]]]]]

\* pd.to_numeric(..., errors="coerce") on one value
ToNumericCell(c) ==
    IF c.k = "num" THEN c
    ELSE IF c.k = "numtext" THEN Num(c.f1)
    ELSE NullCell

to_numeric(s) == [i \in 1..Len(s) |-> ToNumericCell(s[i])]

\* Series.dt.date on one value: the time of day is dropped
DtDateCell(c) == IF c.k = "ts" THEN CalDate(c.f1, c.f2, c.f3) ELSE NullCell

dt_date(s) == [i \in 1..Len(s) |-> DtDateCell(s[i])]

\* df.dropna(subset=...): a label of the subset that is no column is a KeyError
KeepRow(r, subset) == \A c \in subset : ~IsNull(r.cells[c])

dropna(df, subset) ==
    IF ~(subset \subseteq df.columns) THEN Raise("KeyError")
    ELSE LET Keep(r) == KeepRow(r, subset)
         IN Ok([columns |-> df.columns, rows |-> SelectSeq(df.rows, Keep)])

\* lines 98-100: each numeric column that is present is coerced
RECURSIVE CoerceNumeric(_, _)
CoerceNumeric(df, cols) ==
    IF cols = <<>> THEN df
    ELSE LET c == Head(cols)
             d == IF c \in df.columns THEN SetCol(df, c, to_numeric(Col(df, c)))
                  ELSE df
         IN CoerceNumeric(d, Tail(cols))

\* a variant that passes over an absent date column instead of stopping
RECURSIVE ParseDatesSkipping(_, _)
ParseDatesSkipping(df, cols) ==
    IF cols = <<>> THEN Ok(df)
    ELSE LET c == Head(cols)
         IN IF c \in df.columns
            THEN ParseDatesSkipping(
                    SetCol(df, c, smart_parse_datetime(Col(df, c))), Tail(cols))
            ELSE ParseDatesSkipping(df, Tail(cols))

\* lines 91-96: the two date columns in order; the first one absent stops
\* the script
RECURSIVE ParseDates(_, _)
ParseDates(df, cols) ==
    IF cols = <<>> THEN Ok(df)
    ELSE LET c == Head(cols)
         IN IF c \in df.columns
            THEN ParseDates(SetCol(df, c, smart_parse_datetime(Col(df, c))),
                            Tail(cols))
            ELSE Stop(c)

preprocess(df) ==
    LET dated == ParseDates(df, <<OrderDate, ShipDate>>)
    IN IF dated.status # "ok" THEN dated
       ELSE LET coerced == CoerceNumeric(dated.val,
                                         <<Sales, Profit, Discount, Quantity>>)
                kept == dropna(coerced, {OrderDate, Sales, Profit})
            IN IF kept.status # "ok" THEN kept
               ELSE Ok(SetCol(kept.val, OrderDateDate,
                              dt_date(Col(kept.val, OrderDate))))

(***************************************************************************)
(* SpecPre: preprocess applied to every table of at most MaxRows rows      *)
(* drawn from SampleRows, under each column set of ColumnSets, and then    *)
(* applied again to its own result.                                        *)
(***************************************************************************)
AllCols == {OrderDate, ShipDate, Sales, Profit, Discount, Quantity, Region}

ColumnSets ==
    { AllCols,
      AllCols \ {OrderDate},
      AllCols \ {ShipDate},
      AllCols \ {OrderDate, ShipDate},
      AllCols \ {Sales},
      AllCols \ {Profit},
      AllCols \ {Discount, Quantity},
      AllCols \ {Sales, Profit, Discount, Quantity, Region} }

East == Str(1)
West == Str(2)

Row(od, sd, sa, pr, di, qu, re) ==
    [c \in AllCols |->
        CASE c = OrderDate -> od
          [] c = ShipDate -> sd
          [] c = Sales -> sa
          [] c = Profit -> pr
          [] c = Discount -> di
          [] c = Quantity -> qu
          [] OTHER -> re]

SampleRows ==
    { Row(DateText(3, 4, 2016, 0), DateText(5, 4, 2016, 0),
          NumText(100), NumText(10), NumText(0), NumText(2), East),
      Row(DateText(13, 4, 2016, 10), NullCell,
          NumText(50), NumText(5), Junk, NullCell, West),
      Row(DateText(3, 4, 2016, 0), DateText(13, 4, 2016, 0),
          Junk, NumText(10), NumText(0), NumText(1), East),
      Row(DateText(13, 4, 2016, 0), DateText(14, 4, 2016, 0),
          NumText(100), NullCell, NumText(0), NumText(1), NullCell),
      Row(NullCell, DateText(5, 4, 2016, 0),
          NumText(100), NumText(10), NumText(0), NumText(1), West),
      Row(DateText(4, 13, 2016, 0), Junk,
          NumText(70), NumText(7), NullCell, Junk, East) }

\* the table of the given rows under the given columns, indexed 0, 1, ...
MakeDF(cols, rs) ==
    [columns |-> cols,
     rows |-> [i \in 1..Len(rs) |->
                 [id |-> i - 1, cells |-> [c \in cols |-> rs[i][c]]]]]

InitPre ==
    /\ rawdf \in {MakeDF(cols, rs) :
                    cols \in ColumnSets, rs \in SeqsUpTo(SampleRows, MaxRows)}
    /\ out1 = NotRun /\ out2 = NotRun
    /\ IdleParse /\ IdleFilter /\ IdleLoad /\ IdleApp

Preprocess ==
    /\ out1 = NotRun
    /\ out1' = preprocess(rawdf)
    /\ UNCHANGED <<rawdf, out2, parseVars, filterVars, loadVars, appVars>>

PreprocessAgain ==
    /\ out1.status = "ok"
    /\ out2 = NotRun
    /\ out2' = preprocess(out1.val)
    /\ UNCHANGED <<rawdf, out1, parseVars, filterVars, loadVars, appVars>>

NextPre == Preprocess \/ PreprocessAgain

SpecPre == InitPre /\ [][NextPre]_vars

Ids(df) == {df.rows[i].id : i \in 1..Len(df.rows)}

\* the rows of df whose Order Date, Sales and Profit are all present and
\* non-null once the dates are parsed and the numbers coerced
MandatoryOk(df, i) ==
    /\ {OrderDate, Sales, Profit} \subseteq df.columns
    /\ ~IsNull(smart_parse_datetime(Col(df, OrderDate))[i])
    /\ ~IsNull(ToNumericCell(df.rows[i].cells[Sales]))
    /\ ~IsNull(ToNumericCell(df.rows[i].cells[Profit]))

ExactlyMandatoryRows(df, res) ==
    /\ res.status = "ok"
    /\ \A j \in 1..Len(res.val.rows) :
          \A c \in {OrderDate, Sales, Profit} : ~IsNull(res.val.rows[j].cells[c])
    /\ Ids(res.val) = {df.rows[i].id : i \in {k \in 1..Len(df.rows) : MandatoryOk(df, k)}}
    /\ Len(res.val.rows) = Cardinality(Ids(res.val))

HasRequired(df) == {OrderDate, ShipDate} \subseteq df.columns

\* C2: for every raw table that has the required columns, the output of
\* preprocess holds exactly the input rows whose Order Date, Sales and Profit
\* are non-null after parsing and coercion.
C2_ExactRows ==
    (out1 # NotRun /\ HasRequired(rawdf)) => ExactlyMandatoryRows(rawdf, out1)

\* C7: for every raw table that has Order Date and Ship Date, whichever of
\* the four numeric columns are absent, preprocess returns a table.
C7_NumericOptional ==
    (out1 # NotRun /\ HasRequired(rawdf)) => out1.status = "ok"

\* C9: preprocess applied to its own result returns that result.
C9_Idempotent ==
    (out1.status = "ok" /\ out2 # NotRun) => out2 = out1

\* a second pass over a table that lost rows in the first pass, kept a null
\* Ship Date and chose the day-first reading
C9_Witness ==
    /\ out1.status = "ok" /\ out2 = out1
    /\ Len(out1.val.rows) > 1
    /\ Len(out1.val.rows) < Len(rawdf.rows)
    /\ \E i \in 1..Len(out1.val.rows) :
          /\ IsNull(out1.val.rows[i].cells[ShipDate])
          /\ out1.val.rows[i].cells[OrderDate] = Ts(2016, 4, 13, 10)
          /\ out1.val.rows[i].cells[OrderDateDate] = CalDate(2016, 4, 13)

(***************************************************************************)
(* apply_filters.  The mask starts all True; a selection that is not empty *)
(* is and-ed in as df[column].isin(selection), and df[column] of a column  *)
(* the table does not have is a KeyError.                                  *)
(***************************************************************************)
\* Series.isin(sel): NaN is in no selection of labels
isin(s, sel) == [i \in 1..Len(s) |-> ~IsNull(s[i]) /\ s[i] \in sel]

\* a variant without the `if sel:` test: an empty selection selects no row
DimMaskUnguarded(df, sel, c) ==
    IF c \notin df.columns THEN Raise("KeyError")
    ELSE Ok(isin(Col(df, c), sel))

\* lines 109-110, 111-112, 113-114: `if sel: mask &= df[c].isin(sel)`
DimMask(df, sel, c) ==
    IF sel = {} THEN Ok([i \in 1..Len(df.rows) |-> TRUE])
    ELSE IF c \notin df.columns THEN Raise("KeyError")
    ELSE Ok(isin(Col(df, c), sel))

\* df[mask]
RECURSIVE Take(_, _)
Take(rows, mask) ==
    IF rows = <<>> THEN <<>>
    ELSE (IF Head(mask) THEN <<Head(rows)>> ELSE <<>>) \o Take(Tail(rows), Tail(mask))

apply_filters(df, rsel, csel, ssel) ==
    LET m1 == DimMask(df, rsel, Region)
    IN IF m1.status # "ok" THEN m1
       ELSE LET m2 == DimMask(df, csel, Category)
            IN IF m2.status # "ok" THEN m2
               ELSE LET m3 == DimMask(df, ssel, SubCategory)
                    IN IF m3.status # "ok" THEN m3
                       ELSE Ok([columns |-> df.columns,
                                rows |-> Take(df.rows,
                                    [i \in 1..Len(df.rows) |->
                                        m1.val[i] /\ m2.val[i] /\ m3.val[i]])])

(***************************************************************************)
(* SpecFilter: apply_filters applied to every table of at most             *)
(* MaxFilterRows rows of FilterRows, with or without each of the three     *)
(* columns, under every triple of selections.                              *)
(***************************************************************************)
Furniture == Str(11)
Technology == Str(12)
Chairs == Str(21)
Phones == Str(22)

RegionsAll == {East, West}
CatsAll == {Furniture, Technology}
SubcatsAll == {Chairs, Phones}

FilterCols == {Region, Category, SubCategory, Sales}

FilterColumnSets ==
    { FilterCols, FilterCols \ {Region}, FilterCols \ {Category},
      FilterCols \ {SubCategory} }

FRow(re, ca, su) ==
    [c \in FilterCols |->
        CASE c = Region -> re
          [] c = Category -> ca
          [] c = SubCategory -> su
          [] OTHER -> Num(100)]

FilterRows ==
    { FRow(East, Furniture, Chairs),
      FRow(West, Technology, Phones),
      FRow(East, Technology, Phones),
      FRow(NullCell, Furniture, Chairs),
      FRow(East, Furniture, NullCell) }

InitFilter ==
    /\ fdf \in {MakeDF(cols, rs) :
                  cols \in FilterColumnSets,
                  rs \in SeqsUpTo(FilterRows, MaxFilterRows)}
    /\ region_sel \in SUBSET RegionsAll
    /\ category_sel \in SUBSET CatsAll
    /\ subcat_sel \in SUBSET SubcatsAll
    /\ fres = NotRun
    /\ IdleParse /\ IdlePre /\ IdleLoad /\ IdleApp

ApplyFilters ==
    /\ fres = NotRun
    /\ fres' = apply_filters(fdf, region_sel, category_sel, subcat_sel)
    /\ UNCHANGED <<fdf, region_sel, category_sel, subcat_sel,
                   parseVars, preVars, loadVars, appVars>>

NextFilter == ApplyFilters

SpecFilter == InitFilter /\ [][NextFilter]_vars

\* row r meets the selection of the dimension held in column c
Meets(r, sel, c) == sel = {} \/ r.cells[c] \in sel

\* the rows of rows, in order, that meet every dimension of dims
RECURSIVE RowsMeeting(_, _)
RowsMeeting(rows, dims) ==
    IF rows = <<>> THEN <<>>
    ELSE (IF \A d \in dims : Meets(Head(rows), d[1], d[2])
          THEN <<Head(rows)>> ELSE <<>>) \o RowsMeeting(Tail(rows), dims)

Dims == {<<region_sel, Region>>, <<category_sel, Category>>,
         <<subcat_sel, SubCategory>>}

\* the rows of the result are exactly the rows of the table with Region East
OnlyEast ==
    \A i \in 1..Len(fdf.rows) :
        fdf.rows[i].cells[Region] = East
        <=> (\E j \in 1..Len(fres.val.rows) : fres.val.rows[j] = fdf.rows[i])

\* the same, among the rows whose Category and Sub-Category are not null
OnlyEastNonNull ==
    \A i \in 1..Len(fdf.rows) :
        (/\ fdf.rows[i].cells[Region] = East
         /\ ~IsNull(fdf.rows[i].cells[Category])
         /\ ~IsNull(fdf.rows[i].cells[SubCategory]))
        <=> (\E j \in 1..Len(fres.val.rows) : fres.val.rows[j] = fdf.rows[i])

FilterRan == fres # NotRun /\ {Region, Category, SubCategory} \subseteq fdf.columns

EastAndAll ==
    region_sel = {East} /\ category_sel = CatsAll /\ subcat_sel = SubcatsAll

\* C3 (as amended): on a table that has the three columns the result holds
\* exactly the rows whose value, in each dimension with a non-empty selection,
\* is in the selection; with three empty selections the result is the whole
\* table; with {East}, every category and every sub-category it holds exactly
\* the rows of Region East whose Category and Sub-Category are not null.
C3_FilterExact ==
    FilterRan =>
        /\ fres.status = "ok"
        /\ fres.val.columns = fdf.columns
        /\ fres.val.rows = RowsMeeting(fdf.rows, Dims)
        /\ (region_sel = {} /\ category_sel = {} /\ subcat_sel = {})
              => fres.val = fdf
        /\ EastAndAll => OnlyEastNonNull

\* C3 (as stated): the same, but with {East}, every category and every
\* sub-category the result holds exactly the rows of Region East.
C3_AsStated ==
    FilterRan =>
        /\ fres.status = "ok"
        /\ fres.val.rows = RowsMeeting(fdf.rows, Dims)
        /\ (region_sel = {} /\ category_sel = {} /\ subcat_sel = {})
              => fres.val = fdf
        /\ EastAndAll => OnlyEast

\* an empty region selection beside a category selection that drops a row:
\* the empty dimension constrains nothing, the other one does
C3_Witness ==
    /\ FilterRan /\ fres.status = "ok"
    /\ region_sel = {} /\ category_sel = {Technology} /\ subcat_sel = {}
    /\ Len(fdf.rows) = 2
    /\ Len(fres.val.rows) = 1
    /\ fres.val.rows[1].cells[Region] = West

\* a dimension whose selection is not empty and whose column is absent
AbsentDims == {d \in Dims : d[1] # {} /\ d[2] \notin fdf.columns}

\* C4: a non-empty selection for a dimension whose column is absent is
\* skipped: no error, and the rows the other dimensions select are returned.
C4_AbsentColumnSkipped ==
    (fres # NotRun /\ AbsentDims # {}) =>
        /\ fres.status = "ok"
        /\ fres.val.rows = RowsMeeting(fdf.rows, Dims \ AbsentDims)

(***************************************************************************)
(* load_data.  A file name is its sequence of characters.  The content of  *)
(* a source is its format ("csv": delimited text, "xlsx": an Office Open   *)
(* XML workbook, "xls": a BIFF workbook) and its table as written: the     *)
(* header texts, blanks included, and the cells; a "bytes" cell of a text  *)
(* file holds bytes that are no valid UTF-8.                               *)
(***************************************************************************)
DATA_PATH == <<"d", "a", "t", "a", "/", "G", "S", ".", "c", "s", "v">>

EXPECTED_COLS ==
    << "Row ID", "Order ID", "Order Date", "Ship Date", "Ship Mode",
       "Customer ID", "Customer Name", "Segment", "Country", "City", "State",
       "Postal Code", "Region", "Product ID", "Category", "Sub-Category",
       "Product Name", "Sales", "Quantity", "Discount", "Profit" >>

None == [status |-> "none"]

\* str.lower() on one character, for the letters the file names use
LowerChar(ch) ==
    CASE ch = "C" -> "c" [] ch = "S" -> "s" [] ch = "V" -> "v"
      [] ch = "X" -> "x" [] ch = "L" -> "l" [] ch = "G" -> "g"
      [] OTHER -> ch

lower(name) == [i \in 1..Len(name) |-> LowerChar(name[i])]

endswith(name, suffix) ==
    /\ Len(name) >= Len(suffix)
    /\ SubSeq(name, Len(name) - Len(suffix) + 1, Len(name)) = suffix

\* name.endswith(".xlsx") or name.endswith(".xls"), on the lowered name
IsExcelName(name) ==
    \/ endswith(lower(name), <<".", "x", "l", "s", "x">>)
    \/ endswith(lower(name), <<".", "x", "l", "s">>)

\* a "bytes" cell read with the latin-1 codec: every byte is a character
DecodeLatin1Cell(c) == IF c.k = "bytes" THEN Cell("str", 99, 0, 0, 0) ELSE c

\* read_csv types a column: numbers when every value that is not empty is a
\* number, the text as it is otherwise
InferColumn(s) ==
    IF \A i \in 1..Len(s) : s[i].k \in {"numtext", "null"}
    THEN to_numeric(s) ELSE s

DecodeLatin1(df) ==
    [columns |-> df.columns,
     rows |-> [i \in 1..Len(df.rows) |->
                 [id |-> df.rows[i].id,
                  cells |-> [c \in df.columns |->
                               DecodeLatin1Cell(df.rows[i].cells[c])]]]]

InferTypes(df) ==
    [columns |-> df.columns,
     rows |-> [i \in 1..Len(df.rows) |->
                 [id |-> df.rows[i].id,
                  cells |-> [c \in df.columns |-> InferColumn(Col(df, c))[i]]]]]

\* line 71: pd.read_csv(file, encoding="latin-1")
read_csv_latin1(content) == Ok(InferTypes(DecodeLatin1(content.table)))

\* line 64: pd.read_csv(uploaded_file, encoding="utf-8", errors="replace");
\* read_csv has no parameter named errors (the lossy decoding is asked for
\* with encoding_errors), so the call raises before it reads anything
read_csv_upload(content) == Raise("TypeError")

\* lines 62, 69: pd.read_excel(..., engine="openpyxl"); openpyxl reads the
\* Office Open XML formats only
read_excel(content) ==
    IF content.format = "xlsx" THEN Ok(content.table) ELSE Raise("BadZipFile")

\* str.strip() on a header text
strip(l) == Label(0, l.name, 0)

\* line 74: df.columns = [c.strip() for c in df.columns]
StripColumns(df) ==
    [columns |-> {strip(c) : c \in df.columns},
     rows |-> [i \in 1..Len(df.rows) |->
                 [id |-> df.rows[i].id,
                  cells |-> [x \in {strip(c) : c \in df.columns} |->
                      df.rows[i].cells[CHOOSE c \in df.columns : strip(c) = x]]]]]

\* line 75: the expected columns that are no column of the table
Missing(df) ==
    SelectSeq(EXPECTED_COLS, LAMBDA c : Name(c) \notin df.columns)

\* lines 59-78; the result of a call that returns says whether st.warning
\* was called
load_data(f, up) ==
    LET read ==
          IF up # None
          THEN IF IsExcelName(up.name)
               THEN read_excel(up.content)
               ELSE read_csv_upload(up.content)
          ELSE IF ~f.exists THEN Raise("FileNotFoundError")
               ELSE IF IsExcelName(f.path)
                    THEN read_excel(f.content)
                    ELSE read_csv_latin1(f.content)
    IN IF read.status # "ok" THEN read
       ELSE LET df == StripColumns(read.val)
            IN [status |-> "ok", val |-> df, warned |-> Missing(df) # <<>>]

(***************************************************************************)
(* SpecLoad: load_data applied to a path (present or not) and to an        *)
(* upload, each a delimited-text file or a workbook of at most MaxFileRows *)
(* rows under each header of Headers.                                      *)
(***************************************************************************)
ExpectedLabels == {Name(EXPECTED_COLS[i]) : i \in 1..Len(EXPECTED_COLS)}

\* the header with the labels of ks written with blanks around them
Padded(cols, ks) ==
    {IF c \in ks THEN Label(1, c.name, 2) ELSE c : c \in cols}

Headers ==
    { ExpectedLabels,
      Padded(ExpectedLabels, {OrderDate, Sales}),
      ExpectedLabels \ {Name("Postal Code")},
      Padded(ExpectedLabels, {Profit}) \ {OrderDate},
      Padded({OrderDate, ShipDate, Sales, Profit}, {ShipDate}),
      ExpectedLabels \cup {Label(0, "Notes", 1)} }

\* one row of a file under the header h
FileRow(h, od, sa, cn) ==
    [c \in h |->
        CASE c.name = "Order Date" -> od
          [] c.name = "Ship Date" -> DateText(5, 4, 2016, 0)
          [] c.name \in {"Sales", "Profit", "Discount", "Quantity"} -> sa
          [] c.name = "Customer Name" -> cn
          [] OTHER -> Str(1)]

FileRows(h) ==
    { FileRow(h, DateText(3, 4, 2016, 0), NumText(100), Str(2)),
      FileRow(h, DateText(13, 4, 2016, 0), Junk, Cell("bytes", 0, 0, 0, 0)) }

\* the workbook cells of the same rows: no undecodable text in a workbook
WorkbookCell(c) == IF c.k = "bytes" THEN Str(3) ELSE c

Workbook(df) ==
    [columns |-> df.columns,
     rows |-> [i \in 1..Len(df.rows) |->
                 [id |-> df.rows[i].id,
                  cells |-> [c \in df.columns |->
                               WorkbookCell(df.rows[i].cells[c])]]]]

Contents(fmt) ==
    UNION { { [format |-> fmt,
               table |-> IF fmt = "csv" THEN MakeDF(h, rs)
                         ELSE Workbook(MakeDF(h, rs))] :
                rs \in SeqsUpTo(FileRows(h), MaxFileRows) } : h \in Headers }

CsvPaths == {DATA_PATH, <<"u", ".", "C", "S", "V">>}
XlsxPaths == {<<"a", ".", "x", "l", "s", "x">>, <<"B", ".", "X", "L", "S", "X">>}
XlsPaths == {<<"c", ".", "x", "l", "s">>}

\* a name together with a content of the format its extension names
NamedContents ==
    (CsvPaths \X Contents("csv")) \cup (XlsxPaths \X Contents("xlsx"))
        \cup (XlsPaths \X Contents("xls"))

Absent(path) == [path |-> path, exists |-> FALSE, content |-> None]

InitLoad ==
    /\ \/ /\ uploaded_file = None
          /\ \/ \E nc \in NamedContents :
                   file = [path |-> nc[1], exists |-> TRUE, content |-> nc[2]]
             \/ file \in {Absent(pa) : pa \in CsvPaths \cup XlsxPaths}
       \/ /\ \E nc \in NamedContents :
                uploaded_file = [name |-> nc[1], content |-> nc[2]]
          /\ file = Absent(DATA_PATH)
    /\ loaded = NotRun
    /\ IdleParse /\ IdlePre /\ IdleFilter /\ IdleApp

LoadData ==
    /\ loaded = NotRun
    /\ loaded' = load_data(file, uploaded_file)
    /\ UNCHANGED <<file, uploaded_file, parseVars, preVars, filterVars, appVars>>

NextLoad == LoadData

SpecLoad == InitLoad /\ [][NextLoad]_vars

\* the content load_data is given: the upload when there is one
Given == IF uploaded_file # None THEN uploaded_file.content ELSE file.content

SourcePresent == uploaded_file # None \/ file.exists

IsTrimmed(l) == l.pre = 0 /\ l.post = 0

\* an expected column is absent from the table once its header is trimmed
SomeExpectedAbsent(content) ==
    \E i \in 1..Len(EXPECTED_COLS) :
        \A c \in content.table.columns : c.name # EXPECTED_COLS[i]

\* C6: for every source that is there, whatever expected columns are absent,
\* load_data returns the table with all its rows and trimmed column names,
\* and warns exactly when an expected column is absent after trimming.
C6_NeverBlocked ==
    (loaded # NotRun /\ SourcePresent) =>
        /\ loaded.status = "ok"
        /\ Len(loaded.val.rows) = Len(Given.table.rows)
        /\ \A c \in loaded.val.columns : IsTrimmed(c)
        /\ {c.name : c \in loaded.val.columns} = {c.name : c \in Given.table.columns}
        /\ loaded.warned <=> SomeExpectedAbsent(Given)

UploadedText == uploaded_file # None /\ ~IsExcelName(uploaded_file.name)

\* C8: loading an uploaded delimited-text stream returns a table, whatever
\* its bytes.
C8_UploadNeverFails ==
    (loaded # NotRun /\ UploadedText) => loaded.status = "ok"

(***************************************************************************)
(* The script.  Every interaction (an upload, a changed selection) runs    *)
(* lines 122-209 from the top: load, preprocess, the filters, the KPIs,    *)
(* the charts with the CSV download and the preview.  st.stop() ends the   *)
(* run; an exception nothing catches ends it with the traceback on the     *)
(* page.  load_data and preprocess are wrapped by st.cache_data: a call    *)
(* whose key is in the cache returns the cached value without running the  *)
(* body, and only a call that returns is cached.                           *)
(***************************************************************************)
\* a variant whose key leaves the upload out
CacheKeyLoadIgnoresUpload(f, up) == [file |-> f.path, uploaded |-> None]

\* line 57: the key of a load_data call is made of its arguments: the path
\* (not what the file holds) and the upload (its name and bytes)
CacheKeyLoad(f, up) == [file |-> f.path, uploaded |-> up]

\* line 88: the key of a preprocess call is the table it is given
CacheKeyPre(d) == d

Hit(cache, key) == \E e \in cache : e.key = key
Cached(cache, key) == (CHOOSE e \in cache : e.key = key).val

RECURSIVE SumCells(_)
SumCells(col) == IF col = <<>> THEN 0 ELSE Head(col).f1 + SumCells(Tail(col))

\* sorted(df_clean[c].dropna().unique()) if c in df_clean.columns else []
Options(d, c) ==
    IF c \in d.columns
    THEN {d.rows[i].cells[c] : i \in {k \in 1..Len(d.rows) : ~IsNull(d.rows[k].cells[c])}}
    ELSE {}

CustomerName == Name("Customer Name")
AppCols == {OrderDate, ShipDate, Sales, Profit, Region, Category, SubCategory,
            CustomerName}

AppRow(od, sa, pr, re, su) ==
    [c \in AppCols |->
        CASE c = OrderDate -> od
          [] c = ShipDate -> DateText(5, 4, 2016, 0)
          [] c = Sales -> sa
          [] c = Profit -> pr
          [] c = Region -> re
          [] c = Category -> Furniture
          [] c = SubCategory -> su
          [] OTHER -> Str(2)]

RowA1 == AppRow(DateText(3, 4, 2016, 0), NumText(100), NumText(10), East, Chairs)
RowA2 == AppRow(DateText(13, 4, 2016, 0), NumText(50), NumText(5), West, NullCell)
RowB1 == AppRow(DateText(3, 4, 2016, 10), NumText(70), Junk, East, Chairs)

Csv(cols, rs) == [format |-> "csv", table |-> MakeDF(cols, rs)]
Xlsx(cols, rs) == [format |-> "xlsx", table |-> MakeDF(cols, rs)]

\* what the file at DATA_PATH may hold
DiskContents ==
    { Csv(AppCols, <<RowA1, RowA2>>),
      Csv(AppCols, <<RowB1, RowA1>>),
      Csv(AppCols \ {ShipDate}, <<RowA1>>) }

DiskStates ==
    {Absent(DATA_PATH)}
        \cup {[path |-> DATA_PATH, exists |-> TRUE, content |-> c] : c \in DiskContents}

\* what the user may upload
Uploads ==
    { [name |-> <<"u", ".", "x", "l", "s", "x">>,
       content |-> Xlsx(AppCols \ {Region, SubCategory, CustomerName}, <<RowA1>>)],
      [name |-> <<"v", ".", "X", "L", "S", "X">>,
       content |-> Xlsx(AppCols \ {OrderDate}, <<RowA2>>)],
      [name |-> <<"w", ".", "c", "s", "v">>,
       content |-> Csv(AppCols, <<RowA1>>)] }

InitApp ==
    /\ disk \in DiskStates
    /\ uploaded = None
    /\ pc = "load" /\ turn = 1
    /\ shown = {} /\ ran = {}
    /\ df_raw = NotRun /\ df_clean = NotRun /\ df_f = NotRun
    /\ kpis = NotRun /\ charts = {}
    /\ load_cache = {} /\ pre_cache = {}
    /\ load_execs = 0 /\ pre_execs = 0
    /\ load_returned = {} /\ pre_returned = {}
    /\ IdleParse /\ IdlePre /\ IdleFilter /\ IdleLoad

otherVars == <<parseVars, preVars, filterVars, loadVars>>

\* an interaction: the next run starts from the top with an empty page; the
\* user may have uploaded or removed a file, and the file at DATA_PATH may
\* have been put, replaced or removed in the meantime
Rerun ==
    /\ pc \in {"done", "stopped", "crashed"}
    /\ turn < MaxTurns
    /\ turn' = turn + 1
    /\ disk' \in DiskStates
    /\ uploaded' \in Uploads \cup {None}
    /\ pc' = "load"
    /\ shown' = {} /\ ran' = {}
    /\ df_raw' = NotRun /\ df_clean' = NotRun /\ df_f' = NotRun
    /\ kpis' = NotRun /\ charts' = {}
    /\ UNCHANGED <<load_cache, pre_cache, load_execs, pre_execs,
                   load_returned, pre_returned, otherVars>>

\* lines 125-129
LoadStage ==
    /\ pc = "load"
    /\ LET up == IF uploaded # None THEN uploaded ELSE None
           key == CacheKeyLoad(disk, up)
           hit == Hit(load_cache, key)
           r == IF hit THEN Cached(load_cache, key) ELSE load_data(disk, up)
       IN /\ load_execs' = IF hit THEN load_execs ELSE load_execs + 1
          /\ load_cache' = IF ~hit /\ r.status = "ok"
                           THEN load_cache \cup {[key |-> key, val |-> r]}
                           ELSE load_cache
          /\ load_returned' =
                IF r.status = "ok"
                THEN load_returned \cup
                        {[input |-> [file |-> disk.path, uploaded |-> up],
                          val |-> r.val]}
                ELSE load_returned
          /\ IF r.status = "ok"
             THEN /\ df_raw' = r.val
                  /\ shown' = shown \cup (IF r.warned THEN {"warning"} ELSE {})
                  /\ pc' = "preprocess"
             ELSE IF r.exc = "FileNotFoundError"
             THEN /\ shown' = shown \cup {"info"}
                  /\ pc' = "stopped"
                  /\ df_raw' = df_raw
             ELSE /\ shown' = shown \cup {"exception"}
                  /\ pc' = "crashed"
                  /\ df_raw' = df_raw
    /\ ran' = ran \cup {"load"}
    /\ UNCHANGED <<disk, uploaded, turn, df_clean, df_f, kpis, charts, pre_cache,
                   pre_execs, pre_returned, otherVars>>

\* line 131
PreprocessStage ==
    /\ pc = "preprocess"
    /\ LET key == CacheKeyPre(df_raw)
           hit == Hit(pre_cache, key)
           r == IF hit THEN Cached(pre_cache, key) ELSE preprocess(df_raw)
       IN /\ pre_execs' = IF hit THEN pre_execs ELSE pre_execs + 1
          /\ pre_cache' = IF ~hit /\ r.status = "ok"
                          THEN pre_cache \cup {[key |-> key, val |-> r]}
                          ELSE pre_cache
          /\ pre_returned' =
                IF r.status = "ok"
                THEN pre_returned \cup {[input |-> df_raw, val |-> r.val]}
                ELSE pre_returned
          /\ IF r.status = "ok"
             THEN df_clean' = r.val /\ shown' = shown /\ pc' = "filter"
             ELSE IF r.status = "stop"
             THEN df_clean' = df_clean /\ shown' = shown \cup {"error"} /\ pc' = "stopped"
             ELSE df_clean' = df_clean /\ shown' = shown \cup {"exception"} /\ pc' = "crashed"
    /\ ran' = ran \cup {"preprocess"}
    /\ UNCHANGED <<disk, uploaded, turn, df_raw, df_f, kpis, charts, load_cache,
                   load_execs, load_returned, otherVars>>

\* lines 134-143: the three multiselects offer the values of their column,
\* the user's selection is any part of them
FilterStage ==
    /\ pc = "filter"
    /\ \E rs \in SUBSET Options(df_clean, Region),
          cs \in SUBSET Options(df_clean, Category),
          ss \in SUBSET Options(df_clean, SubCategory) :
          LET r == apply_filters(df_clean, rs, cs, ss)
          IN IF r.status = "ok"
             THEN df_f' = r.val /\ shown' = shown /\ pc' = "kpi"
             ELSE df_f' = df_f /\ shown' = shown \cup {"exception"} /\ pc' = "crashed"
    /\ ran' = ran \cup {"filter"}
    /\ UNCHANGED <<disk, uploaded, turn, df_raw, df_clean, kpis, charts, load_cache,
                   pre_cache, load_execs, pre_execs, load_returned,
                   pre_returned, otherVars>>

\* lines 146-156; the margin is total_profit / total_sales * 100, kept as
\* the pair of its numerator and denominator
KpiStage ==
    /\ pc = "kpi"
    /\ LET total_sales == IF Sales \in df_f.columns
                          THEN SumCells(Col(df_f, Sales)) ELSE 0
           total_profit == IF Profit \in df_f.columns
                           THEN SumCells(Col(df_f, Profit)) ELSE 0
       IN kpis' = [total_sales |-> total_sales,
                   total_profit |-> total_profit,
                   margin |-> IF total_sales # 0
                              THEN <<total_profit * 100, total_sales>>
                              ELSE <<0, 1>>]
    /\ pc' = "charts"
    /\ ran' = ran \cup {"kpi"}
    /\ UNCHANGED <<disk, uploaded, turn, shown, df_raw, df_clean, df_f, charts,
                   load_cache, pre_cache, load_execs, pre_execs, load_returned,
                   pre_returned, otherVars>>

\* lines 161-209: each chart is drawn when its column is there, the CSV
\* download sits with the Sub-Category chart, the preview comes last
ChartsStage ==
    /\ pc = "charts"
    /\ charts' =
          (IF Region \in df_f.columns THEN {"sales_by_region"} ELSE {})
            \cup (IF Category \in df_f.columns THEN {"profit_by_category"} ELSE {})
            \cup (IF Len(df_f.rows) > 0 THEN {"sales_over_time"} ELSE {})
            \cup (IF CustomerName \in df_f.columns THEN {"top5_customers"} ELSE {})
            \cup (IF SubCategory \in df_f.columns
                  THEN {"subcategory_performance", "download_csv"} ELSE {})
            \cup {"preview"}
    /\ pc' = "done"
    /\ ran' = ran \cup {"charts"}
    /\ UNCHANGED <<disk, uploaded, turn, shown, df_raw, df_clean, df_f, kpis,
                   load_cache, pre_cache, load_execs, pre_execs, load_returned,
                   pre_returned, otherVars>>

NextApp ==
    \/ Rerun
    \/ LoadStage
    \/ PreprocessStage
    \/ FilterStage
    \/ KpiStage
    \/ ChartsStage

SpecApp == InitApp /\ [][NextApp]_vars

\* the default path does not exist and no upload is provided
SourceNotFound == uploaded = None /\ ~disk.exists

\* the loaded table lacks Order Date or Ship Date
RequiredColumnMissing ==
    df_raw # NotRun /\ ~({OrderDate, ShipDate} \subseteq df_raw.columns)

\* the run has stopped having entered no stage but those of stages, and has
\* produced no filtered table, no KPI, no chart and no download
HaltedWithin(stages) ==
    /\ pc = "stopped"
    /\ ran \subseteq stages
    /\ df_f = NotRun /\ kpis = NotRun /\ charts = {}

ColumnMissingStops ==
    (pc \notin {"off", "load", "preprocess"} /\ RequiredColumnMissing) =>
        ("error" \in shown /\ HaltedWithin({"load", "preprocess"}))

\* C5 (as amended): in every run, if the default path does not exist, no
\* upload is provided and no earlier run has cached the table of the path, or
\* if the loaded table lacks Order Date or Ship Date, a message is shown and
\* the run stops with no later stage entered and nothing produced.
C5_FatalStops ==
    /\ (/\ pc \notin {"off", "load"}
        /\ SourceNotFound
        /\ ~Hit(load_cache, CacheKeyLoad(disk, None)))
          => ("info" \in shown /\ HaltedWithin({"load"}) /\ df_clean = NotRun)
    /\ ColumnMissingStops

\* C5 (as stated): the same whenever the default path does not exist and no
\* upload is provided.
C5_AsStated ==
    /\ (pc \notin {"off", "load"} /\ SourceNotFound)
          => ("info" \in shown /\ HaltedWithin({"load"}) /\ df_clean = NotRun)
    /\ ColumnMissingStops

\* a later run finds no file and no upload, with a table of an upload in the
\* cache, and stops on the prompt to upload
C5_Witness ==
    /\ turn > 1 /\ pc = "stopped" /\ SourceNotFound
    /\ load_cache # {}
    /\ shown = {"info"} /\ ran = {"load"}

\* the input of this run's load_data call, and the tables earlier calls
\* with a given input have returned
LoadInput ==
    [file |-> disk.path, uploaded |-> IF uploaded # None THEN uploaded ELSE None]

Earlier(returned, in) == {e.val : e \in {x \in returned : x.input = in}}

LoadMemoized ==
    (pc = "load" /\ pc' # "load") =>
        LET prev == Earlier(load_returned, LoadInput)
        IN IF prev # {}
           THEN /\ pc' = "preprocess"
                /\ prev = {df_raw'}
                /\ load_execs' = load_execs
           ELSE /\ load_execs' = load_execs + 1
                /\ pc' = "preprocess" =>
                      LET r == load_data(disk, LoadInput.uploaded)
                      IN r.status = "ok" /\ df_raw' = r.val

PreMemoized ==
    (pc = "preprocess" /\ pc' # "preprocess") =>
        LET prev == Earlier(pre_returned, df_raw)
        IN IF prev # {}
           THEN /\ pc' = "filter"
                /\ prev = {df_clean'}
                /\ pre_execs' = pre_execs
           ELSE /\ pre_execs' = pre_execs + 1
                /\ pc' = "filter" =>
                      LET r == preprocess(df_raw)
                      IN r.status = "ok" /\ df_clean' = r.val

\* C10: a load_data or preprocess call whose input an earlier call has
\* returned a table for returns that table and does not run the body again;
\* a call with any other input runs the body on that input.
C10_Memoized == [][LoadMemoized /\ PreMemoized]_vars

\* three runs, two of them with the same input although the file at
\* DATA_PATH was replaced in between: each body ran twice, and the last run
\* shows the table read before the replacement
C10_Witness ==
    /\ turn = 3 /\ pc = "done"
    /\ load_execs = 2 /\ pre_execs = 2
    /\ Cardinality(load_returned) = 2
    /\ uploaded = None /\ disk.exists
    /\ load_data(disk, None).status = "ok"
    /\ df_raw # load_data(disk, None).val

====
